---- MODULE Spec2Model ----
(***************************************************************************)
(* A model of gj2ascii's core (src/gj2ascii/_core.py): the geometry        *)
(* normalizer, render, stack, dict2table and paginate.                     *)
(*                                                                         *)
(* Text is a sequence of one-character strings; os.linesep is "\n".        *)
(* A Python call is one action; a generator advances one next() per        *)
(* action.  Floating point coordinates are modelled by integers and exact  *)
(* rational arithmetic.                                                    *)
(***************************************************************************)
EXTENDS Integers, Sequences, FiniteSets, TLC

VARIABLES
    call,             \* the operation the caller invoked
    pc,               \* "ready" | "running" | "returned" | "raised"
    rendered_layers,  \* stack(): the layers, bottom first
    fill,             \* stack() / render(): the fill symbol, after str()
    value,            \* render(): the value symbol, after str()
    width,            \* render(): the requested column count
    bbox,             \* render(): None or <<x_min, y_min, x_max, y_max>>
    ftrz,             \* the geometry / feature source
    properties,       \* paginate(): None or the property names
    cursor,           \* how many elements of a sequence source were read
    coord_seen,       \* render(): the geometries read by bounds inference
    shapes_seen,      \* render(): the geometries handed to rasterize()
    output_array,     \* render(): the grid rasterize() returned
    yielded,          \* a generator's items so far
    result            \* the returned value or the raised error

vars == <<call, pc, rendered_layers, fill, value, width, bbox, ftrz,
          properties, cursor, coord_seen, shapes_seen, output_array,
          yielded, result>>

----------------------------------------------------------------------------
(* Bounds of the model *)

MaxLayers == 3   \* layers in one stack() call
MaxCells == 6    \* cells of all the grids in one state, together
MaxWidth == 2    \* largest requested width
MaxItems == 2    \* elements of a source given to the generators

----------------------------------------------------------------------------
(* Python values *)

\* an optional argument: None, or a value
None == [some |-> FALSE, v |-> <<>>]
Some(x) == [some |-> TRUE, v |-> x]

\* Python objects: a dict (d: its keys), an object with a __geo_interface__
\* (d: the mapping it gives), or anything else (here an int)
PyDict(d) == [cls |-> "dict", d |-> d]
PyGeo(d) == [cls |-> "geo", d |-> d]
PyInt(n) == [cls |-> "int", d |-> [n |-> n]]

\* a source of elements: a list, a generator or another one-shot iterator
Source(cls, items) == [cls |-> cls, items |-> items]
NoSource == Source("list", <<>>)

SPACE == " "
LINESEP == "\n"

DEFAULT_FILL == <<" ">>
DEFAULT_VALUE == <<"+">>

Ok(v) == [kind |-> "ok", val |-> v]
Raise(e) == [kind |-> e, val |-> <<>>]

NoResult == [kind |-> "none", val |-> <<>>]

----------------------------------------------------------------------------
(* Text helpers: str.splitlines, str.join, str.strip, zip, r[::2] *)

RECURSIVE SplitAcc(_, _, _)
SplitAcc(s, cur, acc) ==
    IF s = <<>>
    THEN IF cur = <<>> THEN acc ELSE Append(acc, cur)
    ELSE IF Head(s) = LINESEP
         THEN SplitAcc(Tail(s), <<>>, Append(acc, cur))
         ELSE SplitAcc(Tail(s), Append(cur, Head(s)), acc)

splitlines(s) == SplitAcc(s, <<>>, <<>>)

RECURSIVE join(_, _)
join(sep, parts) ==
    IF parts = <<>> THEN <<>>
    ELSE IF Len(parts) = 1 THEN parts[1]
    ELSE parts[1] \o sep \o join(sep, Tail(parts))

RECURSIVE LStrip(_, _)
LStrip(s, chars) ==
    IF s # <<>> /\ Head(s) \in chars THEN LStrip(Tail(s), chars) ELSE s

RECURSIVE RStrip(_, _)
RStrip(s, chars) ==
    IF s # <<>> /\ s[Len(s)] \in chars
    THEN RStrip(SubSeq(s, 1, Len(s) - 1), chars)
    ELSE s

strip(s, chars) == RStrip(LStrip(s, chars), chars)

SetMin(S) == CHOOSE x \in S : \A y \in S : x <= y
SetMax(S) == CHOOSE x \in S : \A y \in S : x >= y

\* zip(*seqs): stops at the shortest sequence; zip() of nothing is empty
zip(seqs) ==
    IF seqs = <<>> THEN <<>>
    ELSE [i \in 1..SetMin({Len(seqs[k]) : k \in 1..Len(seqs)}) |->
              [k \in 1..Len(seqs) |-> seqs[k][i]]]

\* a layer read without skipping the separators
EveryOtherNoSkip(r) == r

\* r[::2]
EveryOther(r) == [i \in 1..((Len(r) + 1) \div 2) |-> r[2 * i - 1]]

SelectNonSpace(pixel_stack) == SelectSeq(pixel_stack, LAMBDA p : p # SPACE)

----------------------------------------------------------------------------
(* stack() *)

\* the bottom opaque pixel instead of the top one
OutPixelFirst(pixel_stack, f) ==
    LET opaque_pixels == SelectNonSpace(pixel_stack)
    IN  IF Len(opaque_pixels) = 0 THEN f
        ELSE opaque_pixels[1]

\* one output pixel: the last opaque pixel of the stack, or the fill
OutPixel(pixel_stack, f) ==
    LET opaque_pixels == SelectNonSpace(pixel_stack)
    IN  IF Len(opaque_pixels) = 0 THEN f
        ELSE opaque_pixels[Len(opaque_pixels)]

\* one output row, as a list of one-character strings
OutRow(row_stack, f) ==
    LET pixel_stacks == zip([k \in 1..Len(row_stack) |-> EveryOther(row_stack[k])])
    IN  [c \in 1..Len(pixel_stacks) |-> OutPixel(pixel_stacks[c], f)]

RowStacks(layers) == zip([k \in 1..Len(layers) |-> splitlines(layers[k])])

Heterogeneous(row_stack) ==
    Cardinality({Len(row_stack[k]) : k \in 1..Len(row_stack)}) # 1

stack(layers, f) ==
    IF Len(f) # 1 THEN Raise("ValueError")
    ELSE LET row_stacks == RowStacks(layers)
         IN  IF \E i \in 1..Len(row_stacks) : Heterogeneous(row_stacks[i])
             THEN Raise("ValueError")
             ELSE LET output_rows ==
                          [i \in 1..Len(row_stacks) |->
                              LET o_row == OutRow(row_stacks[i], f[1])
                              IN  join(<<SPACE>>, [c \in 1..Len(o_row) |-> <<o_row[c]>>])]
                  IN  Ok(join(<<LINESEP>>, output_rows) \o <<LINESEP>>)

----------------------------------------------------------------------------
(* Rendered layers: a grid of characters written the way render() does *)

Chars == {" ", "+", "*"}

\* np.savetxt(fmt='%s'): cells joined by one space, "\n" after every row
savetxt(arr) ==
    LET RowText(r) == join(<<SPACE>>, [c \in 1..Len(arr[r]) |-> <<arr[r][c]>>])
                          \o <<LINESEP>>
        RECURSIVE Cat(_)
        Cat(r) == IF r > Len(arr) THEN <<>> ELSE RowText(r) \o Cat(r + 1)
    IN  Cat(1)

\* lines 346-349: write, read back, strip the line separators, add one
ArrayToText(arr) == strip(savetxt(arr), {LINESEP}) \o <<LINESEP>>

Grids(h, w, cells) == [1..h -> [1..w -> cells]]

Shapes(budget) ==
    {hw \in (1..budget) \X (1..budget) : hw[1] * hw[2] <= budget}

----------------------------------------------------------------------------
(* The caller invokes stack() *)

StackFills == {<<" ">>, <<".">>, <<"+">>, <<>>}

LayersOf(gs) == [k \in 1..Len(gs) |-> ArrayToText(gs[k])]

\* lists of 1..MaxLayers layers of one shape
SameShapeLayers(layers) ==
    \E n \in 1..MaxLayers : \E hw \in Shapes(MaxCells \div n) :
        \E gs \in [1..n -> Grids(hw[1], hw[2], Chars)] : layers = LayersOf(gs)

\* pairs of layers of any two shapes
AnyShapePair(layers) ==
    \E p \in Shapes(MaxCells - 1) : \E q \in Shapes(MaxCells - p[1] * p[2]) :
        \E a \in Grids(p[1], p[2], Chars) : \E b \in Grids(q[1], q[2], Chars) :
            layers = LayersOf(<<a, b>>)

InitStack ==
    /\ call = "stack" /\ pc = "ready"
    /\ SameShapeLayers(rendered_layers) \/ AnyShapePair(rendered_layers)
    /\ fill \in StackFills
    /\ value = DEFAULT_VALUE
    /\ width = 0 /\ bbox = None /\ ftrz = NoSource /\ properties = None
    /\ cursor = 0 /\ coord_seen = <<>> /\ shapes_seen = <<>>
    /\ output_array = <<>> /\ yielded = <<>> /\ result = NoResult

Stack ==
    /\ call = "stack" /\ pc = "ready"
    /\ result' = stack(rendered_layers, fill)
    /\ pc' = IF result'.kind = "ok" THEN "returned" ELSE "raised"
    /\ UNCHANGED <<call, rendered_layers, fill, value, width, bbox, ftrz,
                   properties, cursor, coord_seen, shapes_seen, output_array,
                   yielded>>

NextStack == Stack

SpecStack == InitStack /\ [][NextStack]_vars

----------------------------------------------------------------------------
(* Reading a text block by position: a block of h rows and w columns has   *)
(* h * 2 * w characters, cell (r, c) at (r - 1) * 2 * w + 2 * c - 1, a     *)
(* space after every cell but the last of a row, a "\n" after the last.    *)

FirstSep(text) == SetMin({i \in 1..Len(text) : text[i] = LINESEP} \cup {Len(text) + 1})

ColsOf(text) == FirstSep(text) \div 2
LinesOf(text) == Cardinality({i \in 1..Len(text) : text[i] = LINESEP})

CellAt(text, w, r, c) == text[(r - 1) * 2 * w + 2 * c - 1]

IsBlock(text, h, w) ==
    /\ Len(text) = h * 2 * w
    /\ \A r \in 1..h : \A c \in 1..w :
          /\ CellAt(text, w, r, c) # LINESEP
          /\ text[(r - 1) * 2 * w + 2 * c] = IF c = w THEN LINESEP ELSE SPACE

SameShape(layers) ==
    \A k \in 1..Len(layers) :
        IsBlock(layers[k], LinesOf(layers[1]), ColsOf(layers[1]))

\* the layers above cell (r, c) that drew something there
Drawn(layers, w, r, c) == {k \in 1..Len(layers) : CellAt(layers[k], w, r, c) # SPACE}

StackCalled == call = "stack" /\ pc # "ready"

\* C1: for a non-empty list of equally shaped layers and a one-character
\* fill, stack returns a block of the layers' shape whose every cell is the
\* character of the last layer that is not a space there, and the fill where
\* every layer has a space.
C1_TopmostWins ==
    (StackCalled /\ Len(fill) = 1 /\ SameShape(rendered_layers)) =>
        LET h == LinesOf(rendered_layers[1])
            w == ColsOf(rendered_layers[1])
        IN  /\ result.kind = "ok"
            /\ IsBlock(result.val, h, w)
            /\ \A r \in 1..h : \A c \in 1..w :
                 LET d == Drawn(rendered_layers, w, r, c)
                 IN  CellAt(result.val, w, r, c) =
                        IF d = {} THEN fill[1]
                        ELSE CellAt(rendered_layers[SetMax(d)], w, r, c)

\* two layers overlap with different characters in one cell, and another
\* cell is a space in both
C1_Witness ==
    /\ StackCalled /\ pc = "returned" /\ fill = <<".">>
    /\ rendered_layers = << <<"+", " ", " ", LINESEP>>, <<"*", " ", " ", LINESEP>> >>
    /\ result.val = <<"*", " ", ".", LINESEP>>

\* C7: stacking three layers of one shape at once gives what stacking the
\* bottom two first and then the third on the result gives.
C7_Associative ==
    (StackCalled /\ Len(fill) = 1 /\ Len(rendered_layers) = 3
        /\ SameShape(rendered_layers)) =>
        LET inner == stack(SubSeq(rendered_layers, 1, 2), fill)
        IN  /\ inner.kind = "ok"
            /\ result = stack(<<inner.val, rendered_layers[3]>>, fill)

\* the middle layer alone draws in the first row, the top one in the second
C7_Witness ==
    /\ StackCalled /\ pc = "returned" /\ fill = <<".">>
    /\ rendered_layers = << <<"+", LINESEP, " ", LINESEP>>,
                            <<"*", LINESEP, " ", LINESEP>>,
                            <<" ", LINESEP, "+", LINESEP>> >>
    /\ result.val = <<"*", LINESEP, "+", LINESEP>>

\* C2: stack raises ValueError whenever the layers differ in their number
\* of lines or in the length of an aligned line.
C2_RaisesOnAnyMismatch ==
    (StackCalled /\ Len(fill) = 1 /\ ~SameShape(rendered_layers)) =>
        result.kind = "ValueError"

----------------------------------------------------------------------------
(* _geometry_extractor() *)

\* what one element of the loop gives: a yielded geometry or a raised error
ExtractOne(obj) ==
    LET o == IF obj.cls = "geo" THEN PyDict(obj.d) ELSE obj
    IN  IF o.cls # "dict" THEN Raise("TypeError")
        ELSE IF "type" \notin DOMAIN o.d THEN Raise("KeyError")
        ELSE IF o.d.type = "Feature"
             THEN IF "geometry" \in DOMAIN o.d THEN Ok(o.d.geometry)
                  ELSE Raise("KeyError")
        ELSE IF "coordinates" \in DOMAIN o.d THEN Ok(o)
        ELSE Raise("TypeError")

\* line 140: a dict or an object with a __geo_interface__ is one element
IsSingle(f) == f.cls \in {"dict", "geo"}

\* the elements a fresh pass over the source finds
Remaining(f, cur) ==
    IF IsSingle(f) THEN <<f>>
    ELSE IF f.cls = "list" THEN f.items
    ELSE SubSeq(f.items, cur + 1, Len(f.items))

\* the generator run to its end over elems: the geometries yielded, the
\* number of elements read, and the error that ended it, if any
RECURSIVE ExtractAll(_, _, _)
ExtractAll(elems, n, acc) ==
    IF n = Len(elems) THEN [kind |-> "ok", val |-> acc, read |-> n]
    ELSE LET one == ExtractOne(elems[n + 1])
         IN  IF one.kind = "ok"
             THEN ExtractAll(elems, n + 1, Append(acc, one.val))
             ELSE [kind |-> one.kind, val |-> acc, read |-> n + 1]

GeometryExtractor(elems) == ExtractAll(elems, 0, <<>>)

----------------------------------------------------------------------------
(* render() *)

\* asShape(g).bounds: (minx, miny, maxx, maxy) of the coordinates
Bounds(g) ==
    LET xs == {g.d.coordinates[i][1] : i \in 1..Len(g.d.coordinates)}
        ys == {g.d.coordinates[i][2] : i \in 1..Len(g.d.coordinates)}
    IN  <<SetMin(xs), SetMin(ys), SetMax(xs), SetMax(ys)>>

\* lines 314-318: the minimum bounding rectangle of the geometries
InferBounds(geoms) ==
    LET bs == [i \in 1..Len(geoms) |-> Bounds(geoms[i])]
    IN  <<SetMin({bs[i][1] : i \in 1..Len(bs)}), SetMin({bs[i][2] : i \in 1..Len(bs)}),
          SetMax({bs[i][3] : i \in 1..Len(bs)}), SetMax({bs[i][4] : i \in 1..Len(bs)})>>

\* int(a / b) for b # 0: the quotient truncated toward zero
IntDiv(a, b) ==
    LET Abs(x) == IF x < 0 THEN -x ELSE x
        q == Abs(a) \div Abs(b)
    IN  IF (a < 0) = (b < 0) THEN q ELSE -q

\* lines 320-325: cell_size = x_delta / width, height = int(y_delta / cell_size),
\* which is y_delta * width / x_delta; a zero cell_size divides by zero
Height(b, w) ==
    LET x_delta == b[3] - b[1]
        y_delta == b[4] - b[2]
    IN  IF w = 0 \/ x_delta = 0 THEN Raise("ZeroDivisionError")
        ELSE LET height == IntDiv(y_delta * w, x_delta)
             IN  Ok(IF height = 0 THEN 1 ELSE height)

\* a width of zero let through
ArgsErrorStrict(f, v, w) == Len(f) # 1 \/ Len(v) # 1 \/ w < 0

\* lines 292-299
ArgsError(f, v, w) == Len(f) # 1 \/ Len(v) # 1 \/ w <= 0

\* np.char.replace on an array of one-character cells
Replace(arr, old, new) ==
    [r \in 1..Len(arr) |-> [c \in 1..Len(arr[r]) |->
        IF arr[r][c] = old THEN new ELSE arr[r][c]]]

\* lines 338-342: astype(str), then the two replacements
Symbols(arr, f, v) ==
    LET a0 == [r \in 1..Len(arr) |-> [c \in 1..Len(arr[r]) |->
                  IF arr[r][c] = 0 THEN "0" ELSE "1"]]
        a1 == IF f # "0" THEN Replace(a0, "0", f) ELSE a0
        a2 == IF f # "1" THEN Replace(a1, "1", v) ELSE a1
    IN  a2

\* lines 337-349
GridToText(arr, f, v) == ArrayToText(Symbols(arr, f[1], v[1]))

\* lines 310-313: itertools.tee for a generator, the source itself otherwise
Teed(f) == f.cls = "generator"

\* the grids rasterize() can return for the shapes: any 0/1 grid of the
\* shape; with no shape at all, a ValueError or a grid of zeros
Rasterized(geoms, h, w) ==
    IF geoms = <<>>
    THEN {Raise("ValueError"), Ok([r \in 1..h |-> [c \in 1..w |-> 0]])}
    ELSE {Ok(g) : g \in Grids(h, w, {0, 1})}

\* an outcome of one call of render(): the result, the position the source
\* is left at, what bounds inference and rasterize() read, and the grid
Outcome(res, cur, cs, ss, arr) ==
    [result |-> res, cursor |-> cur, coord_seen |-> cs, shapes_seen |-> ss,
     output_array |-> arr]

\* render(src, width=w, fill=f, value=v, bbox=b), src read up to cur
RenderOutcomes(src, cur, w, f, v, b) ==
    IF ArgsError(f, v, w)
    THEN {Outcome(Raise("ValueError"), cur, <<>>, <<>>, <<>>)}
    ELSE
    LET infer == ~b.some
        inferred == GeometryExtractor(Remaining(src, cur))
        \* the source's position after bounds inference
        cur1 == IF infer /\ src.cls \in {"generator", "iterator"}
                THEN cur + inferred.read ELSE cur
        cs == IF infer THEN inferred.val ELSE <<>>
    IN
    IF infer /\ inferred.kind # "ok"
    THEN {Outcome(Raise(inferred.kind), cur1, cs, <<>>, <<>>)}
    ELSE IF infer /\ inferred.val = <<>>
    THEN \* min() of an empty list
         {Outcome(Raise("ValueError"), cur1, cs, <<>>, <<>>)}
    ELSE
    LET bounds == IF infer THEN InferBounds(inferred.val) ELSE b.v
        height == Height(bounds, w)
        \* what the pass for rasterize() finds
        elems == IF infer /\ Teed(src) THEN Remaining(src, cur)
                 ELSE Remaining(src, cur1)
        shapes == GeometryExtractor(elems)
        cur2 == IF src.cls = "iterator" \/ (src.cls = "generator" /\ ~infer)
                THEN cur1 + shapes.read ELSE cur1
    IN
    IF height.kind # "ok"
    THEN {Outcome(Raise(height.kind), cur1, cs, <<>>, <<>>)}
    ELSE IF shapes.kind # "ok"
    THEN {Outcome(Raise(shapes.kind), cur2, cs, shapes.val, <<>>)}
    ELSE {IF out.kind # "ok"
          THEN Outcome(out, cur2, cs, shapes.val, <<>>)
          ELSE Outcome(Ok(GridToText(out.val, f, v)), cur2, cs, shapes.val, out.val)
          : out \in Rasterized(shapes.val, height.val, w)}

Render ==
    /\ call = "render" /\ pc = "ready"
    /\ \E o \in RenderOutcomes(ftrz, cursor, width, fill, value, bbox) :
         /\ result' = o.result
         /\ pc' = IF o.result.kind = "ok" THEN "returned" ELSE "raised"
         /\ cursor' = o.cursor
         /\ coord_seen' = o.coord_seen
         /\ shapes_seen' = o.shapes_seen
         /\ output_array' = o.output_array
    /\ UNCHANGED <<call, rendered_layers, fill, value, width, bbox, ftrz,
                   properties, yielded>>

----------------------------------------------------------------------------
(* The caller invokes render() *)

Geometry(type, coordinates) == PyDict([type |-> type, coordinates |-> coordinates])
Feature(props, geom) == PyDict([type |-> "Feature", properties |-> props, geometry |-> geom])

G_point == Geometry("Point", << <<1, 1>> >>)
G_vline == Geometry("LineString", << <<0, 0>>, <<0, 2>> >>)
G_hline == Geometry("LineString", << <<0, 0>>, <<2, 0>> >>)
G_square == Geometry("Polygon", << <<0, 0>>, <<2, 0>>, <<2, 2>>, <<0, 2>> >>)
G_tall == Geometry("Polygon", << <<0, 0>>, <<1, 0>>, <<1, 2>>, <<0, 2>> >>)

Geoms == {G_point, G_vline, G_hline, G_square, G_tall}

BBoxes == {None, Some(<<0, 0, 2, 2>>), Some(<<0, 0, 2, 1>>), Some(<<1, 0, 1, 2>>)}

\* str(fill) and str(value): "", two characters, and single characters
FillArgs == {<<>>, <<" ">>, <<".">>, <<"0">>, <<"1">>}
ValueArgs == {<<"a", "b">>, <<"+">>, <<"0">>, <<"1">>}
Widths == (-1)..MaxWidth

\* the grid of the call has at most MaxCells cells
SmallGrid(f, b, w) ==
    LET geoms == GeometryExtractor(Remaining(f, 0)).val
        bounds == IF b.some THEN b.v ELSE InferBounds(geoms)
    IN  (w > 0 /\ (b.some \/ geoms # <<>>) /\ Height(bounds, w).kind = "ok")
            => Height(bounds, w).val * w <= MaxCells

G_wide == Geometry("Polygon", << <<0, 0>>, <<2, 0>>, <<2, 1>>, <<0, 1>> >>)

\* property values: a string, or None
Str(t) == [t |-> "str", s |-> t]
NoneValue == [t |-> "None", s |-> <<>>]

K_name == <<"n", "a">>
K_pop == <<"p">>

F_square == Feature((K_name :> Str(<<"s", "q">>)) @@ (K_pop :> NoneValue), G_square)
F_wide == Feature((K_name :> Str(<<"w">>)) @@ (K_pop :> Str(<<"1", "2", "3">>)), G_wide)
F_point == Feature((K_name :> Str(<<"p", "t">>)) @@ (K_pop :> Str(<<"7">>)), G_point)

GeomLists ==
    {<<g>> : g \in Geoms}
        \cup {<<G_square, G_point>>, <<G_hline, G_tall>>, <<F_square, G_vline>>}

RenderSources ==
    Geoms \cup {PyGeo(G_square.d)}
        \cup {Source(k, l) : k \in {"list", "generator", "iterator"}, l \in GeomLists}

InitRender ==
    /\ call = "render" /\ pc = "ready"
    /\ ftrz \in RenderSources
    /\ bbox \in BBoxes
    /\ width \in Widths
    /\ fill \in FillArgs
    /\ value \in ValueArgs
    /\ SmallGrid(ftrz, bbox, width)
    /\ rendered_layers = <<>> /\ properties = None
    /\ cursor = 0 /\ coord_seen = <<>> /\ shapes_seen = <<>>
    /\ output_array = <<>> /\ yielded = <<>> /\ result = NoResult

NextRender == Render

SpecRender == InitRender /\ [][NextRender]_vars

----------------------------------------------------------------------------
(* Claims about render() *)

RenderCalled == call = "render" /\ pc # "ready"

\* the rectangle the call works with: the one given, or the one inferred
UsedBounds == IF bbox.some THEN bbox.v ELSE InferBounds(coord_seen)

\* C3: the text render returns shows every 0 cell as fill and every 1 cell
\* as value, the cells of a row separated by single spaces, one line
\* separator after every row and so exactly one at the end of the block.
C3_CellsShown ==
    (RenderCalled /\ pc = "returned") =>
        LET h == Len(output_array)
        IN  /\ IsBlock(result.val, h, width)
            /\ \A r \in 1..h : \A c \in 1..width :
                 CellAt(result.val, width, r, c) =
                    IF output_array[r][c] = 0 THEN fill[1] ELSE value[1]

\* C4: stacking the one layer rendered with the default symbols, with fill
\* f, gives the text of rendering the same grid with fill f.
C4_SingleLayerStack ==
    (RenderCalled /\ pc = "returned" /\ value = DEFAULT_VALUE) =>
        stack(<<GridToText(output_array, DEFAULT_FILL, DEFAULT_VALUE)>>, fill) = result

\* C5: for a width > 0 and a rectangle with x_min <= x_max and
\* y_min <= y_max, render does not raise and the grid has width columns and
\* max(1, floor((y_max - y_min) / cell_size)) rows.
C5_GridDerived ==
    (RenderCalled /\ ~ArgsError(fill, value, width)
        /\ (bbox.some \/ coord_seen # <<>>)
        /\ UsedBounds[1] <= UsedBounds[3] /\ UsedBounds[2] <= UsedBounds[4]) =>
        LET x_delta == UsedBounds[3] - UsedBounds[1]
            y_delta == UsedBounds[4] - UsedBounds[2]
        IN  /\ pc = "returned"
            /\ \A r \in 1..Len(output_array) : Len(output_array[r]) = width
            /\ IF x_delta = 0 THEN Len(output_array) >= 1
               ELSE LET rows == (y_delta * width) \div x_delta
                    IN  Len(output_array) = IF rows = 0 THEN 1 ELSE rows

\* C6: with width <= 0, or a fill or value that is not one character,
\* render raises ValueError and has read nothing from the source.
C6_ArgsRejectedFirst ==
    (RenderCalled /\ (width <= 0 \/ Len(fill) # 1 \/ Len(value) # 1)) =>
        /\ result.kind = "ValueError"
        /\ cursor = 0 /\ coord_seen = <<>> /\ shapes_seen = <<>>
        /\ output_array = <<>>

\* a generator of two geometries, a width of zero
C6_Witness ==
    /\ RenderCalled /\ pc = "raised" /\ result.kind = "ValueError"
    /\ ftrz = Source("generator", <<G_square, G_point>>)
    /\ width = 0 /\ Len(fill) = 1 /\ Len(value) = 1 /\ ~bbox.some
    /\ cursor = 0

\* the geometries of a sequence of geometries and features, in order
GeometriesOf(items) ==
    [i \in 1..Len(items) |->
        IF items[i].d.type = "Feature" THEN items[i].d.geometry ELSE items[i]]

\* C9: without bounds, a one-shot source is read by bounds inference and
\* the rasterizer still receives every geometry of it, in order; with
\* bounds, only the rasterizer reads the source.
C9_RasterizerSeesAll ==
    (RenderCalled /\ ~ArgsError(fill, value, width)
        /\ ftrz.cls \in {"generator", "iterator"}
        /\ result.kind # "ZeroDivisionError") =>
        /\ shapes_seen = GeometriesOf(ftrz.items)
        /\ coord_seen = IF bbox.some THEN <<>> ELSE GeometriesOf(ftrz.items)

----------------------------------------------------------------------------
(* The caller iterates _geometry_extractor(): one next() per step *)

\* the elements the generator's loop runs over
LoopElems(f) == IF IsSingle(f) THEN <<f>> ELSE f.items

ExtractNext ==
    /\ call = "_geometry_extractor" /\ pc \in {"ready", "suspended"}
    /\ IF cursor = Len(LoopElems(ftrz))
       THEN \* the loop ends: StopIteration
            /\ pc' = "returned"
            /\ UNCHANGED <<cursor, yielded, result>>
       ELSE LET one == ExtractOne(LoopElems(ftrz)[cursor + 1])
            IN  /\ cursor' = cursor + 1
                /\ IF one.kind = "ok"
                   THEN /\ yielded' = Append(yielded, one.val)
                        /\ pc' = "suspended"
                        /\ UNCHANGED result
                   ELSE /\ result' = Raise(one.kind)
                        /\ pc' = "raised"
                        /\ UNCHANGED yielded
    /\ UNCHANGED <<call, rendered_layers, fill, value, width, bbox, ftrz,
                   properties, coord_seen, shapes_seen, output_array>>

\* elements of every shape: geometries, a feature, objects with a
\* __geo_interface__, dicts without a type or without coordinates, an int
D_coords == PyDict([coordinates |-> << <<0, 0>> >>])
D_collection == PyDict([type |-> "GeometryCollection", geometries |-> <<>>])
D_other == PyDict([name |-> <<"x">>])

Objects ==
    {G_point, G_square, F_square, PyGeo(G_square.d), PyGeo(F_square.d),
     D_coords, D_collection, D_other, PyInt(5)}

SeqsUpTo(S, n) == UNION {[1..k -> S] : k \in 0..n}

ExtractSources ==
    {o \in Objects : IsSingle(o)}
        \cup {Source(k, l) : k \in {"list", "generator"}, l \in SeqsUpTo(Objects, MaxItems)}

InitExtract ==
    /\ call = "_geometry_extractor" /\ pc = "ready"
    /\ ftrz \in ExtractSources
    /\ rendered_layers = <<>> /\ fill = DEFAULT_FILL /\ value = DEFAULT_VALUE
    /\ width = 0 /\ bbox = None /\ properties = None
    /\ cursor = 0 /\ coord_seen = <<>> /\ shapes_seen = <<>>
    /\ output_array = <<>> /\ yielded = <<>> /\ result = NoResult

NextExtract == ExtractNext

SpecExtract == InitExtract /\ [][NextExtract]_vars

\* the shapes the normalizer recognizes, and what it is to yield for each
Converted(obj) == IF obj.cls = "geo" THEN PyDict(obj.d) ELSE obj

IsFeature(obj) ==
    /\ Converted(obj).cls = "dict"
    /\ "type" \in DOMAIN Converted(obj).d
    /\ Converted(obj).d.type = "Feature"

HasCoordinates(obj) ==
    /\ Converted(obj).cls = "dict"
    /\ "coordinates" \in DOMAIN Converted(obj).d

Recognized(obj) == IsFeature(obj) \/ HasCoordinates(obj)

Expected(obj) ==
    IF IsFeature(obj) THEN Converted(obj).d.geometry ELSE Converted(obj)

\* C10: the normalizer yields one geometry per element, in order and one
\* element per step: the geometry of a Feature, an element with coordinates
\* itself, the converted mapping of an interface object; an element of none
\* of these shapes raises TypeError when it is reached, and nothing else
\* raises.
C10_ExtractOrTypeError ==
    (call = "_geometry_extractor") =>
        LET elems == LoopElems(ftrz)
            good == IF pc = "raised" THEN cursor - 1 ELSE cursor
        IN  /\ Len(yielded) = good
            /\ \A i \in 1..good :
                 Recognized(elems[i]) /\ yielded[i] = Expected(elems[i])
            /\ pc = "raised" =>
                 (result.kind = "TypeError" /\ ~Recognized(elems[cursor]))
            /\ pc = "returned" => cursor = Len(elems)

----------------------------------------------------------------------------
(* dict2table() *)

\* text_type(v)
text_type(v) == IF v.t = "None" THEN <<"N", "o", "n", "e">> ELSE v.s

Repeat(ch, n) == [i \in 1..n |-> ch]

\* dictionary: the ordered (key, value) pairs
dict2table(dictionary) ==
    IF dictionary = <<>> THEN Raise("ValueError")
    ELSE
    LET n == Len(dictionary)
        prop(i) == dictionary[i][1]
        val(i) == text_type(dictionary[i][2])
        prop_width == SetMax({Len(prop(i)) : i \in 1..n})
        value_width == SetMax({Len(val(i)) : i \in 1..n})
        divider == <<"+">> \o Repeat("-", prop_width + 2) \o <<"+">>
                       \o Repeat("-", value_width + 2) \o <<"+">>
        line(i) == <<"|", " ">> \o prop(i) \o Repeat(" ", prop_width - Len(prop(i)))
                       \o <<" ", "|", " ">>
                       \o Repeat(" ", value_width - Len(val(i))) \o val(i)
                       \o <<" ", "|">>
        output == <<divider>> \o [i \in 1..n |-> line(i)] \o <<divider>>
    IN  Ok(join(<<LINESEP>>, output))

----------------------------------------------------------------------------
(* paginate(): one next() per step *)

\* line 380: the table of the listed properties of one item
TableOf(item, names) ==
    IF item.cls # "dict" THEN Raise("TypeError")
    ELSE IF names # <<>> /\ "properties" \notin DOMAIN item.d THEN Raise("KeyError")
    ELSE IF \E i \in 1..Len(names) : names[i] \notin DOMAIN item.d.properties
    THEN Raise("KeyError")
    ELSE dict2table([i \in 1..Len(names) |-> <<names[i], item.d.properties[names[i]]>>])

\* lines 376-384: the unit of one item, given the text render() returned
Unit(table, rendered) ==
    LET output == (IF table.kind = "ok" THEN <<table.val>> ELSE <<>>) \o <<rendered>>
    IN  join(<<LINESEP>>, output) \o <<LINESEP>>

PaginateNext ==
    /\ call = "paginate" /\ pc \in {"ready", "suspended"}
    /\ IF cursor = Len(ftrz.items)
       THEN \* the loop ends: StopIteration
            /\ pc' = "returned"
            /\ UNCHANGED <<cursor, yielded, result, coord_seen, shapes_seen,
                           output_array>>
       ELSE LET item == ftrz.items[cursor + 1]
                table == IF properties.some THEN TableOf(item, properties.v)
                         ELSE [kind |-> "none", val |-> <<>>]
            IN  /\ cursor' = cursor + 1
                /\ IF table.kind \notin {"ok", "none"}
                   THEN /\ result' = Raise(table.kind)
                        /\ pc' = "raised"
                        /\ UNCHANGED <<yielded, coord_seen, shapes_seen, output_array>>
                   ELSE \E o \in RenderOutcomes(item, 0, width, fill, value, bbox) :
                          /\ coord_seen' = o.coord_seen
                          /\ shapes_seen' = o.shapes_seen
                          /\ output_array' = o.output_array
                          /\ IF o.result.kind # "ok"
                             THEN /\ result' = o.result
                                  /\ pc' = "raised"
                                  /\ UNCHANGED yielded
                             ELSE /\ yielded' = Append(yielded, Unit(table, o.result.val))
                                  /\ pc' = "suspended"
                                  /\ UNCHANGED result
    /\ UNCHANGED <<call, rendered_layers, fill, value, width, bbox, ftrz,
                   properties>>

Features == {F_square, F_wide, F_point}

PropertyArgs == {None, Some(<<>>), Some(<<K_name>>), Some(<<K_pop, K_name>>)}

InitPaginate ==
    /\ call = "paginate" /\ pc = "ready"
    /\ ftrz \in {Source(k, l) : k \in {"list", "generator"},
                                l \in SeqsUpTo(Features, MaxItems)}
    /\ properties \in PropertyArgs
    /\ width \in 1..MaxWidth
    /\ \E fv \in {<<DEFAULT_FILL, DEFAULT_VALUE>>, << <<".">>, <<"*">> >>} :
          fill = fv[1] /\ value = fv[2]
    /\ bbox = None
    /\ rendered_layers = <<>>
    /\ cursor = 0 /\ coord_seen = <<>> /\ shapes_seen = <<>>
    /\ output_array = <<>> /\ yielded = <<>> /\ result = NoResult

NextPaginate == PaginateNext

SpecPaginate == InitPaginate /\ [][NextPaginate]_vars

\* C8: paginate yields one unit per element, one element per step and in
\* order; the unit is the table of the listed properties (present exactly
\* when properties is not None), then the rendering of that feature, joined
\* by the line separator, with one line separator appended.
C8_OneUnitPerFeature ==
    (call = "paginate") =>
        /\ pc # "raised"
        /\ Len(yielded) = cursor
        /\ pc = "returned" => cursor = Len(ftrz.items)
        /\ pc = "suspended" =>
             LET item == ftrz.items[cursor]
                 rendered == GridToText(output_array, fill, value)
                 table == dict2table([i \in 1..Len(properties.v) |->
                              <<properties.v[i], item.d.properties[properties.v[i]]>>]).val
             IN  yielded[cursor] =
                    IF properties.some
                    THEN table \o <<LINESEP>> \o rendered \o <<LINESEP>>
                    ELSE rendered \o <<LINESEP>>

====
